---- MODULE Spec2Model ----
(***************************************************************************)
(* CogniTask AI: the task store of database.py (create / read / update /   *)
(* delete over the tasks table, the focus-mode selection and the           *)
(* statistics), the Gemini adapter of gemini_utils.py and the task list    *)
(* page of app.py.                                                         *)
(*                                                                         *)
(* Encoding.  A Python value that may be None is a sequence of length at   *)
(* most one: None is << >> and a present value v is << v >>.  Instants     *)
(* (datetime values) are natural numbers; SQLite keeps a DateTime column   *)
(* as a fixed-width text "YYYY-MM-DD HH:MM:SS.ffffff", whose text order is *)
(* the order of the instants, so comparisons are modelled on the numbers.  *)
(* A task_id (uuid4) is a natural number, the n-th generated id being n.   *)
(*                                                                         *)
(* The operations are actions with the arguments of the Python functions   *)
(* and the readings of the clock as parameters.  Each specification draws  *)
(* them from the inputs its claims are about: Spec (parents and deletion), *)
(* SpecFocus (selection of the next task), SpecStats (statistics),         *)
(* SpecEnums (status and priority texts), SpecFields (partial updates),    *)
(* SpecClock (timestamps), SpecGemini (the adapter), SpecIntegrity         *)
(* (parents taken from the stored tasks), SpecTree (the rendered           *)
(* hierarchy), SpecApp (the buttons and forms of one browser session of    *)
(* app.py) and SpecSessions (two database sessions interleaving).          *)
(***************************************************************************)
EXTENDS Integers, Sequences, FiniteSets, TLC

VARIABLES
    tasks,   \* the tasks table: task_id -> row
    issued,  \* how many task ids generate_task_id has handed out
    now,     \* the wall clock, as last read
    call,    \* the last step of the run: the operation, its task_id, its arguments
    ret,     \* what that operation returned
    session_state,  \* st.session_state of the browser session of app.py
    generated_for,  \* history: the task whose breakdown produced breakdown_subtasks
    running         \* per database session, the delete_task call it is inside of

vars == <<tasks, issued, now, call, ret, session_state, generated_for, running>>

\* what the functions of database.py and gemini_utils.py never touch
front == <<session_state, generated_for, running>>

----------------------------------------------------------------------------
(* Bounds of the model *)

\* number of task ids generate_task_id may hand out in one run
MaxIds == 3

\* the largest reading of the wall clock
MaxTime == 3

----------------------------------------------------------------------------
(* Values *)

None == << >>

Some(v) == << v >>

VALID_STATUSES == {"todo", "inprogress", "done", "blocked"}

VALID_PRIORITIES == {"low", "medium", "high", "urgent"}

Ids == 1..MaxIds

\* a row of the tasks table
Task(task_id, title, description, status, priority, due_date, parent_task_id, created_at, updated_at) ==
    [task_id |-> task_id, title |-> title, description |-> description,
     status |-> status, priority |-> priority, due_date |-> due_date,
     parent_task_id |-> parent_task_id, created_at |-> created_at,
     updated_at |-> updated_at]

\* the arguments of a create_task call, as the call variable records them
CreateArgs(title, description, status, priority, due_date, parent_task_id) ==
    [title |-> title, description |-> description, status |-> status,
     priority |-> priority, due_date |-> due_date, parent_task_id |-> parent_task_id]

\* the arguments of an update_task call, as the call variable records them
UpdateArgs(title, description, status, priority, due_date, parent_task_id, clear_due_date, clear_parent) ==
    [title |-> title, description |-> description, status |-> status,
     priority |-> priority, due_date |-> due_date, parent_task_id |-> parent_task_id,
     clear_due_date |-> clear_due_date, clear_parent |-> clear_parent]

----------------------------------------------------------------------------
(* Queries of database.py, as functions of the table *)

\* mutation: the filter on task_id is lost and first() returns any row
get_task_by_id_AnyRow(db, task_id) ==
    IF DOMAIN db = {} THEN None ELSE Some(db[CHOOSE i \in DOMAIN db : TRUE])

get_task_by_id(db, task_id) ==
    IF task_id \in DOMAIN db THEN Some(db[task_id]) ELSE None

get_subtasks(db, parent_task_id) ==
    {c \in DOMAIN db : db[c].parent_task_id = Some(parent_task_id)}

\* mutation: the children count is never positive
has_subtasks_Never(db, task_id) == FALSE

has_subtasks(db, task_id) ==
    Cardinality(get_subtasks(db, task_id)) > 0

----------------------------------------------------------------------------
(* Operations of database.py *)

\* the database sessions (connections of SessionLocal) that run concurrently
Sessions == {"A", "B"}

Init ==
    /\ tasks = << >>
    /\ issued = 0
    /\ now = 0
    /\ call = [op |-> "init", task_id |-> 0]
    /\ ret = None
    /\ session_state = [editing_task_id |-> None, show_add_form |-> FALSE,
                        show_ai_input |-> FALSE, ai_parsed_task |-> None,
                        breakdown_task_id |-> None, breakdown_subtasks |-> None]
    /\ generated_for = None
    /\ running = [s \in Sessions |-> None]

\* the row create_task builds for the id task_id
create_task(task_id, title, description, status, priority, due_date, parent_task_id, created_at, updated_at) ==
    Task(task_id, title, description,
         IF status \in VALID_STATUSES THEN status ELSE "todo",
         IF priority \in VALID_PRIORITIES THEN priority ELSE "medium",
         due_date, parent_task_id, created_at, updated_at)

\* the table after db.add(task) and db.commit()
db_add(db, task) ==
    [i \in DOMAIN db \cup {task.task_id} |-> IF i = task.task_id THEN task ELSE db[i]]

\* the table after db.delete(task) and db.commit()
db_delete(db, task) == [i \in DOMAIN db \ {task.task_id} |-> db[i]]

\* create_task; created_at and updated_at are the two readings of the clock
\* taken by the column defaults when the row is inserted
CreateTask(title, description, status, priority, due_date, parent_task_id, created_at, updated_at) ==
    /\ issued < MaxIds
    /\ LET task_id == issued + 1
           task == create_task(task_id, title, description, status, priority,
                               due_date, parent_task_id, created_at, updated_at)
       IN /\ tasks' = db_add(tasks, task)
          /\ issued' = task_id
          /\ call' = [op |-> "create_task", task_id |-> task_id,
                      args |-> CreateArgs(title, description, status, priority,
                                          due_date, parent_task_id)]
          /\ ret' = Some(task)
    /\ now' = updated_at
    /\ UNCHANGED front

GetTaskById(task_id) ==
    /\ call' = [op |-> "get_task_by_id", task_id |-> task_id]
    /\ ret' = get_task_by_id(tasks, task_id)
    /\ UNCHANGED <<tasks, issued, now>>
    /\ UNCHANGED front

\* mutation: an invalid status or priority is stored as it is given
Updated_NoEnumCheck(task, title, description, status, priority, due_date, parent_task_id, clear_due_date, clear_parent, t) ==
    LET t1 == IF title # None THEN [task EXCEPT !.title = title[1]] ELSE task
        t2 == IF description # None THEN [t1 EXCEPT !.description = description] ELSE t1
        t3 == IF status # None THEN [t2 EXCEPT !.status = status[1]] ELSE t2
        t4 == IF priority # None THEN [t3 EXCEPT !.priority = priority[1]] ELSE t3
        t5 == IF due_date # None THEN [t4 EXCEPT !.due_date = due_date] ELSE t4
        t6 == IF clear_due_date THEN [t5 EXCEPT !.due_date = None] ELSE t5
        t7 == IF parent_task_id # None THEN [t6 EXCEPT !.parent_task_id = parent_task_id] ELSE t6
        t8 == IF clear_parent THEN [t7 EXCEPT !.parent_task_id = None] ELSE t7
    IN [t8 EXCEPT !.updated_at = t]

\* mutation: due_date and parent_task_id are assigned whether supplied or not
Updated_AssignsAbsent(task, title, description, status, priority, due_date, parent_task_id, clear_due_date, clear_parent, t) ==
    LET t1 == IF title # None THEN [task EXCEPT !.title = title[1]] ELSE task
        t2 == IF description # None THEN [t1 EXCEPT !.description = description] ELSE t1
        t3 == IF status # None /\ status[1] \in VALID_STATUSES
              THEN [t2 EXCEPT !.status = status[1]] ELSE t2
        t4 == IF priority # None /\ priority[1] \in VALID_PRIORITIES
              THEN [t3 EXCEPT !.priority = priority[1]] ELSE t3
        t5 == [t4 EXCEPT !.due_date = due_date]
        t6 == IF clear_due_date THEN [t5 EXCEPT !.due_date = None] ELSE t5
        t7 == [t6 EXCEPT !.parent_task_id = parent_task_id]
        t8 == IF clear_parent THEN [t7 EXCEPT !.parent_task_id = None] ELSE t7
    IN [t8 EXCEPT !.updated_at = t]

\* mutation: the clear flags are applied before the supplied values
Updated_ClearFirst(task, title, description, status, priority, due_date, parent_task_id, clear_due_date, clear_parent, t) ==
    LET t1 == IF title # None THEN [task EXCEPT !.title = title[1]] ELSE task
        t2 == IF description # None THEN [t1 EXCEPT !.description = description] ELSE t1
        t3 == IF status # None /\ status[1] \in VALID_STATUSES
              THEN [t2 EXCEPT !.status = status[1]] ELSE t2
        t4 == IF priority # None /\ priority[1] \in VALID_PRIORITIES
              THEN [t3 EXCEPT !.priority = priority[1]] ELSE t3
        t5 == IF clear_due_date THEN [t4 EXCEPT !.due_date = None] ELSE t4
        t6 == IF due_date # None THEN [t5 EXCEPT !.due_date = due_date] ELSE t5
        t7 == IF clear_parent THEN [t6 EXCEPT !.parent_task_id = None] ELSE t6
        t8 == IF parent_task_id # None THEN [t7 EXCEPT !.parent_task_id = parent_task_id] ELSE t7
    IN [t8 EXCEPT !.updated_at = t]

\* the row after the assignments of update_task
Updated(task, title, description, status, priority, due_date, parent_task_id, clear_due_date, clear_parent, t) ==
    LET t1 == IF title # None THEN [task EXCEPT !.title = title[1]] ELSE task
        t2 == IF description # None THEN [t1 EXCEPT !.description = description] ELSE t1
        t3 == IF status # None /\ status[1] \in VALID_STATUSES
              THEN [t2 EXCEPT !.status = status[1]] ELSE t2
        t4 == IF priority # None /\ priority[1] \in VALID_PRIORITIES
              THEN [t3 EXCEPT !.priority = priority[1]] ELSE t3
        t5 == IF due_date # None THEN [t4 EXCEPT !.due_date = due_date] ELSE t4
        t6 == IF clear_due_date THEN [t5 EXCEPT !.due_date = None] ELSE t5
        t7 == IF parent_task_id # None THEN [t6 EXCEPT !.parent_task_id = parent_task_id] ELSE t6
        t8 == IF clear_parent THEN [t7 EXCEPT !.parent_task_id = None] ELSE t7
    IN [t8 EXCEPT !.updated_at = t]

\* update_task; t is the reading of the clock at line 172
UpdateTask(task_id, title, description, status, priority, due_date, parent_task_id, clear_due_date, clear_parent, t) ==
    /\ call' = [op |-> "update_task", task_id |-> task_id,
                args |-> UpdateArgs(title, description, status, priority, due_date,
                                    parent_task_id, clear_due_date, clear_parent)]
    /\ LET found == get_task_by_id(tasks, task_id)
       IN IF found = None
          THEN /\ ret' = None
               /\ UNCHANGED <<tasks, issued, now>>
          ELSE LET task == Updated(found[1], title, description, status, priority,
                                   due_date, parent_task_id, clear_due_date, clear_parent, t)
               IN /\ tasks' = [tasks EXCEPT ![task.task_id] = task]
                  /\ ret' = Some(task)
                  /\ now' = t
                  /\ UNCHANGED issued
    /\ UNCHANGED front

\* mutation: the row is deleted without the has_subtasks check
DeleteTask_NoGate(task_id) ==
    /\ call' = [op |-> "delete_task", task_id |-> task_id]
    /\ LET found == get_task_by_id(tasks, task_id)
       IN IF found = None
          THEN /\ ret' = FALSE
               /\ UNCHANGED <<tasks, issued, now>>
          ELSE /\ tasks' = [i \in DOMAIN tasks \ {found[1].task_id} |-> tasks[i]]
               /\ ret' = TRUE
               /\ UNCHANGED <<issued, now>>
    /\ UNCHANGED front

DeleteTask(task_id) ==
    /\ call' = [op |-> "delete_task", task_id |-> task_id]
    /\ LET found == get_task_by_id(tasks, task_id)
       IN IF found = None
          THEN /\ ret' = FALSE
               /\ UNCHANGED <<tasks, issued, now>>
          ELSE IF has_subtasks(tasks, task_id)
          THEN /\ ret' = FALSE
               /\ UNCHANGED <<tasks, issued, now>>
          ELSE /\ tasks' = db_delete(tasks, found[1])
               /\ ret' = TRUE
               /\ UNCHANGED <<issued, now>>
    /\ UNCHANGED front

\* the CASE expression priority_case of get_next_priority_task
priority_case(priority) ==
    CASE priority = "urgent" -> 4
      [] priority = "high" -> 3
      [] priority = "medium" -> 2
      [] priority = "low" -> 1
      [] OTHER -> 0

\* Task.due_date.asc().nullslast(): a sorts before b on due_date
due_date_asc_nullslast(a, b) ==
    \/ a.due_date # None /\ b.due_date = None
    \/ a.due_date # None /\ b.due_date # None /\ a.due_date[1] < b.due_date[1]

\* mutation: due_date is the first sort key and the priority the second
order_by_DueFirst(a, b) ==
    \/ due_date_asc_nullslast(a, b)
    \/ /\ a.due_date = b.due_date
       /\ \/ priority_case(a.priority) > priority_case(b.priority)
          \/ /\ priority_case(a.priority) = priority_case(b.priority)
             /\ a.created_at < b.created_at

\* the ORDER BY of get_next_priority_task: row a sorts strictly before row b
order_by(a, b) ==
    \/ priority_case(a.priority) > priority_case(b.priority)
    \/ /\ priority_case(a.priority) = priority_case(b.priority)
       /\ \/ due_date_asc_nullslast(a, b)
          \/ /\ a.due_date = b.due_date
             /\ a.created_at < b.created_at

\* mutation: the status filter is lost
filter_incomplete_All(db) == DOMAIN db

\* .filter(Task.status.in_(["todo", "inprogress"]))
filter_incomplete(db) ==
    {i \in DOMAIN db : db[i].status \in {"todo", "inprogress"}}

\* the rows first() may return: those of the filtered rows no other row sorts
\* before (the order among rows equal on all three keys is the engine's)
get_next_priority_task(db) ==
    {i \in filter_incomplete(db) :
        \A j \in filter_incomplete(db) : ~order_by(db[j], db[i])}

GetNextPriorityTask ==
    /\ call' = [op |-> "get_next_priority_task", task_id |-> 0]
    /\ IF get_next_priority_task(tasks) = {}
       THEN ret' = None
       ELSE \E i \in get_next_priority_task(tasks) : ret' = Some(tasks[i])
    /\ UNCHANGED <<tasks, issued, now>>
    /\ UNCHANGED front

\* query(Task).filter(Task.status == status).count()
count_status(db, status) ==
    Cardinality({i \in DOMAIN db : db[i].status = status})

\* mutation: the status filter of the overdue count is lost
count_overdue_AnyStatus(db, t) ==
    Cardinality({i \in DOMAIN db : db[i].due_date # None /\ db[i].due_date[1] < t})

\* the overdue count of get_task_stats at the clock reading t; a NULL
\* due_date compares as unknown and is filtered out
count_overdue(db, t) ==
    Cardinality({i \in DOMAIN db :
                    /\ db[i].due_date # None
                    /\ db[i].due_date[1] < t
                    /\ db[i].status \in {"todo", "inprogress"}})

get_task_stats(db, t) ==
    [total |-> Cardinality(DOMAIN db),
     todo |-> count_status(db, "todo"),
     inprogress |-> count_status(db, "inprogress"),
     done |-> count_status(db, "done"),
     blocked |-> count_status(db, "blocked"),
     overdue |-> count_overdue(db, t)]

\* get_task_stats; t is the reading of the clock at line 228
GetTaskStats(t) ==
    /\ call' = [op |-> "get_task_stats", task_id |-> 0]
    /\ ret' = get_task_stats(tasks, t)
    /\ now' = t
    /\ UNCHANGED <<tasks, issued>>
    /\ UNCHANGED front

\* time passes: the wall clock moves on to its next reading
Tick ==
    /\ now < MaxTime
    /\ now' = now + 1
    /\ call' = [op |-> "tick", task_id |-> 0]
    /\ ret' = None
    /\ UNCHANGED <<tasks, issued>>
    /\ UNCHANGED front

\* the system clock is set back (a clock step by the time service or by the
\* operator): datetime.now reads the wall clock, which is not monotonic
ClockSetBack ==
    /\ now > 0
    /\ \E t \in 0..(now - 1) : now' = t
    /\ call' = [op |-> "clock_set_back", task_id |-> 0]
    /\ ret' = None
    /\ UNCHANGED <<tasks, issued>>
    /\ UNCHANGED front

----------------------------------------------------------------------------
(* The store with its hierarchy: tasks differ in their parent only, and    *)
(* every call reads the clock at the same reading.                         *)

\* what a caller can pass as parent_task_id: nothing, the id of a task created
\* earlier (stored or deleted since), or a text that is no task's id (0)
ParentInputs == {None} \cup {Some(i) : i \in 0..issued}

StoreCreate ==
    \E parent \in ParentInputs :
        CreateTask("t", None, "todo", "medium", None, parent, now, now)

StoreUpdate ==
    \E task_id \in Ids, parent \in ParentInputs, clear_parent \in BOOLEAN :
        UpdateTask(task_id, None, None, None, None, None, parent, FALSE, clear_parent, now)

StoreDelete == \E task_id \in Ids : DeleteTask(task_id)

StoreGet == \E task_id \in Ids : GetTaskById(task_id)

Next == StoreCreate \/ StoreUpdate \/ StoreDelete \/ StoreGet

Spec == Init /\ [][Next]_vars

----------------------------------------------------------------------------
(* Claims about the store *)

\* the stored tasks whose parent_task_id is P
ChildrenOf(P) == {c \in DOMAIN tasks : tasks[c].parent_task_id = Some(P)}

\* C1: delete_task(P) on a stored task P that has a child returns False and
\* leaves the table as it was; on a stored task without children it returns
\* True and removes P and no other row (no cascade).
C1_DeleteRefusedWhileChildren ==
    [][\A P \in DOMAIN tasks :
          (call'.op = "delete_task" /\ call'.task_id = P) =>
             IF ChildrenOf(P) # {}
             THEN ret' = FALSE /\ tasks' = tasks
             ELSE /\ ret' = TRUE
                  /\ DOMAIN tasks' = DOMAIN tasks \ {P}
                  /\ \A i \in DOMAIN tasks' : tasks'[i] = tasks[i]]_vars

\* delete_task has just refused to delete a stored parent of another stored task
C1_Witness ==
    /\ call.op = "delete_task"
    /\ call.task_id \in DOMAIN tasks
    /\ \E c \in DOMAIN tasks : c # call.task_id /\ tasks[c].parent_task_id = Some(call.task_id)
    /\ ret = FALSE

\* C8: get_task_by_id, update_task and delete_task on a task_id that is not
\* stored return absent (None, None, False) and leave the table as it was.
C8_UnknownIdChangesNothing ==
    [][\A id \in Ids \ DOMAIN tasks :
          /\ (call'.op = "get_task_by_id" /\ call'.task_id = id) => ret' = None /\ tasks' = tasks
          /\ (call'.op = "update_task" /\ call'.task_id = id) => ret' = None /\ tasks' = tasks
          /\ (call'.op = "delete_task" /\ call'.task_id = id) => ret' = FALSE /\ tasks' = tasks]_vars

\* update_task has just been called with an unknown id on a table that holds tasks
C8_Witness ==
    /\ call.op = "update_task"
    /\ call.task_id \notin DOMAIN tasks
    /\ tasks # << >>
    /\ ret = None

----------------------------------------------------------------------------
(* Focus mode: tasks differ in status, priority, due date and creation     *)
(* time; a task is created at the reading of the previous call or at a     *)
(* later one.                                                              *)

\* number of tasks created in a focus-mode or statistics run
MaxFocusTasks == 2

FocusDues == {None, Some(1), Some(2)}

FocusCreate ==
    /\ issued < MaxFocusTasks
    /\ \E status \in VALID_STATUSES, priority \in VALID_PRIORITIES, due_date \in FocusDues,
          t \in {now, now + 1} :
          /\ t <= MaxTime
          /\ CreateTask("t", None, status, priority, due_date, None, t, t)

FocusNextTask == GetNextPriorityTask

NextFocus == FocusCreate \/ FocusNextTask

SpecFocus == Init /\ [][NextFocus]_vars

\* p ranks strictly above q in urgent > high > medium > low
Outranks(p, q) ==
    <<p, q>> \in {<<"urgent", "high">>, <<"urgent", "medium">>, <<"urgent", "low">>,
                  <<"high", "medium">>, <<"high", "low">>, <<"medium", "low">>}

Candidates == {i \in DOMAIN tasks : tasks[i].status = "todo" \/ tasks[i].status = "inprogress"}

\* C2: the task get_next_priority_task returns is a stored candidate (todo or
\* inprogress) and no candidate precedes it: none has a higher priority; among
\* those of its priority none has an earlier due date, and none has a due date
\* when it has none; among those of its priority and due date none is older.
C2_NextTaskIsMinimal ==
    (call.op = "get_next_priority_task" /\ ret # None) =>
        LET r == ret[1] IN
        /\ r.task_id \in Candidates
        /\ tasks[r.task_id] = r
        /\ \A i \in Candidates :
              LET c == tasks[i] IN
              /\ ~Outranks(c.priority, r.priority)
              /\ c.priority = r.priority =>
                    /\ r.due_date = None => c.due_date = None
                    /\ (r.due_date # None /\ c.due_date # None) => r.due_date[1] <= c.due_date[1]
              /\ (c.priority = r.priority /\ c.due_date = r.due_date) =>
                    r.created_at <= c.created_at

\* an urgent task due later was returned although a high task is due earlier
C2_Witness ==
    /\ call.op = "get_next_priority_task"
    /\ ret # None
    /\ ret[1].priority = "urgent"
    /\ ret[1].due_date = Some(2)
    /\ \E i \in Candidates : tasks[i].priority = "high" /\ tasks[i].due_date = Some(1)

\* C3: get_next_priority_task returns absent exactly when no stored task is
\* todo or inprogress, and a task it returns is never done or blocked.
C3_AbsentIffNoCandidate ==
    call.op = "get_next_priority_task" =>
        /\ ret = None <=> \A i \in DOMAIN tasks : tasks[i].status \in {"done", "blocked"}
        /\ ret # None => ret[1].status \notin {"done", "blocked"}

\* a low task was returned although an urgent task with a due date is stored as done
C3_Witness ==
    /\ call.op = "get_next_priority_task"
    /\ ret # None
    /\ ret[1].priority = "low"
    /\ ret[1].due_date = None
    /\ \E i \in DOMAIN tasks :
          /\ tasks[i].status = "done"
          /\ tasks[i].priority = "urgent"
          /\ tasks[i].due_date = Some(1)

----------------------------------------------------------------------------
(* Statistics: tasks differ in status and due date, and time passes        *)
(* between the calls.                                                      *)

StatsCreate ==
    /\ issued < MaxFocusTasks
    /\ \E status \in VALID_STATUSES, due_date \in FocusDues :
          CreateTask("t", None, status, "medium", due_date, None, now, now)

StatsDelete == \E task_id \in Ids : DeleteTask(task_id)

StatsQuery == GetTaskStats(now)

StatsTick == Tick

NextStats == StatsCreate \/ StatsDelete \/ StatsQuery \/ StatsTick

SpecStats == Init /\ [][NextStats]_vars

\* the number of stored tasks satisfying P
NumberOf(P(_)) == Cardinality({i \in DOMAIN tasks : P(tasks[i])})

\* C9: get_task_stats returns total = the number of stored tasks, one count
\* per status, and overdue = the number of todo or inprogress tasks whose due
\* date is strictly before the instant of the call; done and blocked tasks and
\* tasks without a due date are not counted as overdue.
C9_StatsCounts ==
    call.op = "get_task_stats" =>
        /\ ret.total = Cardinality(DOMAIN tasks)
        /\ ret.todo = NumberOf(LAMBDA x : x.status = "todo")
        /\ ret.inprogress = NumberOf(LAMBDA x : x.status = "inprogress")
        /\ ret.done = NumberOf(LAMBDA x : x.status = "done")
        /\ ret.blocked = NumberOf(LAMBDA x : x.status = "blocked")
        /\ ret.overdue = NumberOf(LAMBDA x : /\ x.status \in {"todo", "inprogress"}
                                             /\ x.due_date # None
                                             /\ x.due_date[1] < now)
        /\ ret.overdue <= ret.todo + ret.inprogress

\* the statistics of a table holding an overdue todo task and a done task
\* whose due date has passed as well
C9_Witness ==
    /\ call.op = "get_task_stats"
    /\ ret.overdue = 1
    /\ \E i, j \in DOMAIN tasks :
          /\ tasks[i].status = "todo" /\ tasks[i].due_date = Some(1)
          /\ tasks[j].status = "done" /\ tasks[j].due_date = Some(1)
          /\ now > 1

----------------------------------------------------------------------------
(* Validation of the enumerated fields: tasks are created and updated with *)
(* valid and invalid status and priority texts.                            *)

\* number of tasks created in a run that varies the fields of the tasks
MaxFieldTasks == 2

StatusInputs == {"todo", "done", "bogus", ""}

PriorityInputs == {"medium", "urgent", "bogus", ""}

EnumsCreate ==
    /\ issued < MaxFieldTasks
    /\ \E status \in StatusInputs, priority \in PriorityInputs :
          CreateTask("t", None, status, priority, None, None, now, now)

EnumsUpdate ==
    \E task_id \in 1..MaxFieldTasks,
       status \in {None, Some("blocked"), Some("bogus"), Some("")},
       priority \in {None, Some("low"), Some("bogus"), Some("")} :
        UpdateTask(task_id, None, None, status, priority, None, None, FALSE, FALSE, now)

EnumsDelete == \E task_id \in 1..MaxFieldTasks : DeleteTask(task_id)

NextEnums == EnumsCreate \/ EnumsUpdate \/ EnumsDelete

SpecEnums == Init /\ [][NextEnums]_vars

\* C4: after every create_task, update_task and delete_task call every stored
\* task has a status among todo, inprogress, done, blocked and a priority
\* among low, medium, high, urgent; create_task stores todo for an invalid
\* status and medium for an invalid priority, and update_task keeps the
\* previous value when the supplied one is invalid.
C4_EnumsAlwaysValid ==
    [][/\ \A i \in DOMAIN tasks' :
             /\ tasks'[i].status \in {"todo", "inprogress", "done", "blocked"}
             /\ tasks'[i].priority \in {"low", "medium", "high", "urgent"}
       /\ call'.op = "create_task" =>
             LET a == call'.args
                 new == tasks'[call'.task_id]
             IN /\ new.status = IF a.status \in {"todo", "inprogress", "done", "blocked"}
                                THEN a.status ELSE "todo"
                /\ new.priority = IF a.priority \in {"low", "medium", "high", "urgent"}
                                  THEN a.priority ELSE "medium"
       /\ (call'.op = "update_task" /\ call'.task_id \in DOMAIN tasks) =>
             LET a == call'.args
                 old == tasks[call'.task_id]
                 new == tasks'[call'.task_id]
             IN /\ (a.status # None /\ a.status[1] \notin {"todo", "inprogress", "done", "blocked"})
                      => new.status = old.status
                /\ (a.priority # None /\ a.priority[1] \notin {"low", "medium", "high", "urgent"})
                      => new.priority = old.priority]_vars

\* update_task has just been given an invalid status and an invalid priority
\* for a task that was created with invalid ones and updated to valid ones
C4_Witness ==
    /\ call.op = "update_task"
    /\ call.task_id \in DOMAIN tasks
    /\ call.args.status = Some("bogus")
    /\ call.args.priority = Some("")
    /\ tasks[call.task_id].status = "blocked"
    /\ tasks[call.task_id].priority = "low"

----------------------------------------------------------------------------
(* Partial updates: the first task is updated with every combination of    *)
(* supplied fields and clear flags, next to tasks that are not updated.    *)

FieldsCreate ==
    /\ issued < MaxFieldTasks
    /\ CreateTask("t1", None, "todo", "medium", None,
                  IF issued = 0 THEN None ELSE Some(1), now, now)

FieldsUpdate ==
    \E title \in {None, Some("t2")}, description \in {None, Some("d2")},
       status \in {None, Some("done")}, priority \in {None, Some("high")},
       due_date \in {None, Some(2)}, parent_task_id \in {None, Some(1)},
       clear_due_date \in BOOLEAN, clear_parent \in BOOLEAN :
        UpdateTask(1, title, description, status, priority, due_date, parent_task_id,
                   clear_due_date, clear_parent, now)

FieldsDelete == \E task_id \in 1..MaxFieldTasks : DeleteTask(task_id)

NextFields == FieldsCreate \/ FieldsUpdate \/ FieldsDelete

SpecFields == Init /\ [][NextFields]_vars

\* C7: update_task on a stored task sets each supplied field to the supplied
\* value and keeps each unsupplied field, except that with clear_due_date the
\* due_date is absent afterwards and with clear_parent the parent_task_id is
\* absent afterwards, also when a value for the field is supplied in the same
\* call; no other task changes.
C7_OnlySuppliedFieldsChange ==
    [][(call'.op = "update_task" /\ call'.task_id \in DOMAIN tasks) =>
          LET a == call'.args
              old == tasks[call'.task_id]
              new == tasks'[call'.task_id]
          IN /\ DOMAIN tasks' = DOMAIN tasks
             /\ \A j \in DOMAIN tasks \ {call'.task_id} : tasks'[j] = tasks[j]
             /\ new.task_id = old.task_id
             /\ new.created_at = old.created_at
             /\ new.title = IF a.title = None THEN old.title ELSE a.title[1]
             /\ new.description = IF a.description = None THEN old.description
                                  ELSE a.description
             /\ new.status = IF a.status = None THEN old.status ELSE a.status[1]
             /\ new.priority = IF a.priority = None THEN old.priority ELSE a.priority[1]
             /\ new.due_date = IF a.clear_due_date THEN None
                               ELSE IF a.due_date = None THEN old.due_date
                               ELSE a.due_date
             /\ new.parent_task_id = IF a.clear_parent THEN None
                                     ELSE IF a.parent_task_id = None THEN old.parent_task_id
                                     ELSE a.parent_task_id]_vars

\* update_task was called with a due date, a parent and both clear flags and
\* without a title on a task whose title had been changed before
C7_Witness ==
    /\ call.op = "update_task"
    /\ call.task_id \in DOMAIN tasks
    /\ call.args.title = None
    /\ call.args.due_date = Some(2) /\ call.args.clear_due_date
    /\ call.args.parent_task_id = Some(1) /\ call.args.clear_parent
    /\ tasks[call.task_id].title = "t2"
    /\ tasks[call.task_id].due_date = None
    /\ tasks[call.task_id].parent_task_id = None
    /\ Cardinality(DOMAIN tasks) > 1

----------------------------------------------------------------------------
(* Timestamps: every call reads the clock later than the call before it,   *)
(* unless the system clock has been set back in between.                   *)

\* the readings the clock can give after time has passed since it stood at now
Later == (now + 1)..MaxTime

ClockCreate ==
    /\ issued < MaxFieldTasks
    /\ \E created_at \in Later, updated_at \in Later :
          /\ updated_at \in {created_at, created_at + 1}
          /\ CreateTask("t1", Some("d1"), "inprogress", "high", Some(1),
                        IF issued = 0 THEN None ELSE Some(1), created_at, updated_at)

ClockUpdateNothing ==
    \E task_id \in 1..MaxFieldTasks, t \in Later :
        UpdateTask(task_id, None, None, None, None, None, None, FALSE, FALSE, t)

ClockDelete == \E task_id \in 1..MaxFieldTasks : DeleteTask(task_id)

ClockStep == ClockSetBack

NextClock == ClockCreate \/ ClockUpdateNothing \/ ClockDelete \/ ClockStep

SpecClock == Init /\ [][NextClock]_vars

\* the call supplies no field and sets no clear flag
NothingSupplied(a) ==
    /\ a.title = None /\ a.description = None /\ a.status = None /\ a.priority = None
    /\ a.due_date = None /\ a.parent_task_id = None
    /\ ~a.clear_due_date /\ ~a.clear_parent

\* C5: update_task on a stored task T with no field supplied and no clear flag
\* leaves task_id, title, description, status, priority, due_date,
\* parent_task_id and created_at of T and every other task unchanged.
C5_EmptyUpdateKeepsFields ==
    [][(/\ call'.op = "update_task"
        /\ call'.task_id \in DOMAIN tasks
        /\ NothingSupplied(call'.args)) =>
          LET old == tasks[call'.task_id]
              new == tasks'[call'.task_id]
          IN /\ DOMAIN tasks' = DOMAIN tasks
             /\ \A j \in DOMAIN tasks \ {call'.task_id} : tasks'[j] = tasks[j]
             /\ new = [old EXCEPT !.updated_at = new.updated_at]]_vars

\* an update without fields has just changed the updated_at of the second of
\* two stored tasks, and nothing else of it
C5_Witness ==
    /\ call.op = "update_task"
    /\ NothingSupplied(call.args)
    /\ call.task_id = 2
    /\ DOMAIN tasks = {1, 2}
    /\ tasks[2].updated_at > tasks[2].created_at
    /\ tasks[2].title = "t1" /\ tasks[2].description = Some("d1")
    /\ tasks[2].status = "inprogress" /\ tasks[2].priority = "high"
    /\ tasks[2].due_date = Some(1) /\ tasks[2].parent_task_id = Some(1)

\* C6: after every update_task call that finds its task, the task's updated_at
\* is strictly greater than before the call and not less than its created_at.
C6_UpdatedAtStrictlyIncreases ==
    [][(call'.op = "update_task" /\ call'.task_id \in DOMAIN tasks) =>
          /\ tasks'[call'.task_id].updated_at > tasks[call'.task_id].updated_at
          /\ tasks'[call'.task_id].updated_at >= tasks'[call'.task_id].created_at]_vars

----------------------------------------------------------------------------
(* The Gemini adapter of gemini_utils.py.                                  *)
(*                                                                         *)
(* A Python str is the sequence of its characters.  A decoded JSON value   *)
(* is a record with its Python type: NoneType, bool, int, str, list (a     *)
(* sequence of values) or dict (a function from keys to values).           *)

JNull == [type |-> "NoneType"]

JBool(b) == [type |-> "bool", value |-> b]

JInt(n) == [type |-> "int", value |-> n]

JStr(chars) == [type |-> "str", value |-> chars]

JList(items) == [type |-> "list", value |-> items]

JDict(items) == [type |-> "dict", value |-> items]

\* the characters of the text literals of gemini_utils.py
Chars ==
    [s \in {"title", "sub_tasks", "low", "medium", "high", "urgent"} |->
        CASE s = "title" -> <<"t", "i", "t", "l", "e">>
          [] s = "sub_tasks" -> <<"s", "u", "b", "_", "t", "a", "s", "k", "s">>
          [] s = "low" -> <<"l", "o", "w">>
          [] s = "medium" -> <<"m", "e", "d", "i", "u", "m">>
          [] s = "high" -> <<"h", "i", "g", "h">>
          [] s = "urgent" -> <<"u", "r", "g", "e", "n", "t">>]

\* bool(v): the truth value Python gives a decoded JSON value
truthy(v) ==
    CASE v.type = "NoneType" -> FALSE
      [] v.type = "bool" -> v.value
      [] v.type = "int" -> v.value # 0
      [] v.type = "str" -> Len(v.value) > 0
      [] v.type = "list" -> Len(v.value) > 0
      [] v.type = "dict" -> DOMAIN v.value # {}

\* the text sub occurs in the text s
is_substring(sub, s) ==
    \E i \in 0..(Len(s) - Len(sub)) : SubSeq(s, i + 1, i + Len(sub)) = sub

\* v == chars, for a text literal chars
is_text(v, chars) == v.type = "str" /\ v.value = chars

\* key in v, for a v that supports the test: a key of the dict, an item of
\* the list, a part of the str
contains(key, v) ==
    CASE v.type = "dict" -> key \in DOMAIN v.value
      [] v.type = "list" -> \E i \in 1..Len(v.value) : is_text(v.value[i], Chars[key])
      [] v.type = "str" -> is_substring(Chars[key], v.value)

\* str(v) of a decoded JSON scalar
str(v) ==
    CASE v.type = "str" -> v.value
      [] v.type = "NoneType" -> <<"N", "o", "n", "e">>
      [] v.type = "bool" -> IF v.value THEN <<"T", "r", "u", "e">>
                            ELSE <<"F", "a", "l", "s", "e">>
      [] v.type = "int" -> IF v.value = 0 THEN <<"0">> ELSE <<"5">>

\* the slice s[:n]
slice_to(s, n) == SubSeq(s, 1, IF Len(s) < n THEN Len(s) ELSE n)

whitespace == {" ", "\t", "\n"}

\* s.lstrip(): s from its first character that is no whitespace
lstrip(s) ==
    IF \A i \in 1..Len(s) : s[i] \in whitespace THEN << >>
    ELSE SubSeq(s, CHOOSE i \in 1..Len(s) :
                      s[i] \notin whitespace /\ \A j \in 1..(i - 1) : s[j] \in whitespace,
                Len(s))

\* s.rstrip(): s up to its last character that is no whitespace
rstrip(s) ==
    IF \A i \in 1..Len(s) : s[i] \in whitespace THEN << >>
    ELSE SubSeq(s, 1, CHOOSE i \in 1..Len(s) :
                         s[i] \notin whitespace /\ \A j \in (i + 1)..Len(s) : s[j] \in whitespace)

\* s.strip()
strip(s) == rstrip(lstrip(s))

\* what a call returns to its caller: a value, or an exception it raises
Return(v) == [raised |-> FALSE, value |-> v]

Raise(error) == [raised |-> TRUE, error |-> error]

\* call_gemini on an outcome of the external call: None when the adapter is
\* not configured, when the API call fails and when the text is no JSON,
\* and the decoded value otherwise (the JSON null decodes to None as well)
call_gemini(outcome) ==
    IF outcome.kind \in {"not_configured", "api_error", "not_json"}
    THEN JNull
    ELSE outcome.json

\* the length limit of the slices [:255]
TEXT_LIMIT == 255

\* parse_task_input from line 97 on, for the value call_gemini returned
parse_task_input(result) ==
    IF ~truthy(result) THEN Return(None)
    ELSE IF result.type \in {"bool", "int"} THEN Raise("TypeError")
    ELSE IF ~contains("title", result) THEN Return(None)
    ELSE IF result.type # "dict" THEN Raise("AttributeError")
    ELSE LET d == result.value
             priority == IF "priority" \in DOMAIN d THEN d["priority"] ELSE JNull
         IN Return(Some(
              [title |-> slice_to(str(d["title"]), TEXT_LIMIT),
               description |-> IF "description" \in DOMAIN d THEN d["description"] ELSE JNull,
               priority |-> IF \E p \in VALID_PRIORITIES : is_text(priority, Chars[p])
                            THEN CHOOSE p \in VALID_PRIORITIES : is_text(priority, Chars[p])
                            ELSE "medium",
               due_date |-> IF "due_date" \in DOMAIN d THEN d["due_date"] ELSE JNull]))

\* the list comprehension of line 144
RECURSIVE clean_sub_tasks(_)
clean_sub_tasks(sub_tasks) ==
    IF sub_tasks = << >> THEN << >>
    ELSE LET task == Head(sub_tasks)
             rest == clean_sub_tasks(Tail(sub_tasks))
         IN IF truthy(task) /\ strip(str(task)) # << >>
            THEN <<slice_to(str(task), TEXT_LIMIT)>> \o rest
            ELSE rest

\* breakdown_task from line 138 on, for the value call_gemini returned
breakdown_task(result) ==
    IF ~truthy(result) THEN Return(None)
    ELSE IF result.type \in {"bool", "int"} THEN Raise("TypeError")
    ELSE IF ~contains("sub_tasks", result) THEN Return(None)
    ELSE IF result.type # "dict" THEN Raise("TypeError")
    ELSE LET sub_tasks == result.value["sub_tasks"]
         IN IF sub_tasks.type = "list" /\ Len(sub_tasks.value) >= 1
            THEN Return(Some(clean_sub_tasks(sub_tasks.value)))
            ELSE Return(None)

ParseTaskInput(outcome) ==
    /\ call' = [op |-> "parse_task_input", task_id |-> 0, args |-> [outcome |-> outcome]]
    /\ ret' = parse_task_input(call_gemini(outcome))
    /\ UNCHANGED <<tasks, issued, now>>
    /\ UNCHANGED front

BreakdownTask(outcome) ==
    /\ call' = [op |-> "breakdown_task", task_id |-> 0, args |-> [outcome |-> outcome]]
    /\ ret' = breakdown_task(call_gemini(outcome))
    /\ UNCHANGED <<tasks, issued, now>>
    /\ UNCHANGED front

----------------------------------------------------------------------------
(* The adapter on the outcomes of the external call: failures, texts that  *)
(* are no JSON, and JSON values of every type.                             *)

\* a key the response leaves out
Absent == [type |-> "absent"]

\* a text of n blanks
Blanks(n) == [i \in 1..n |-> " "]

\* a text one character longer than the slices keep
LongText == [i \in 1..(TEXT_LIMIT + 1) |-> "x"]

TitleValues ==
    {Absent, JNull, JInt(5), JStr(<< >>), JStr(<<"a">>), JStr(<<" ", "a", " ">>),
     JStr(LongText)}

PriorityValues ==
    {Absent, JNull, JStr(Chars["urgent"]), JStr(<<"b", "o", "g", "u", "s">>)}

SubTasksValues ==
    {Absent, JNull, JInt(5), JStr(<<"a">>), JList(<< >>), JList(<<JStr(<<" ">>)>>),
     JList(<<JStr(<< >>), JStr(<<" ", "a", " ">>), JStr(<<"b">>)>>),
     JList(<<JNull, JInt(0), JInt(5)>>),
     JList(<<JStr(Blanks(TEXT_LIMIT) \o <<"a">>), JStr(LongText)>>)}

\* the JSON object holding the keys whose value is not Absent
ObjectOf(title, priority, sub_tasks) ==
    LET all == [k \in {"title", "priority", "sub_tasks"} |->
                   CASE k = "title" -> title
                     [] k = "priority" -> priority
                     [] k = "sub_tasks" -> sub_tasks]
        keys == {k \in DOMAIN all : all[k].type # "absent"}
    IN JDict([k \in keys |-> all[k]])

JsonValues ==
    {JNull, JBool(TRUE), JBool(FALSE), JInt(0), JInt(5),
     JStr(<< >>), JStr(<<"a">>), JStr(Chars["title"]), JStr(<<"a">> \o Chars["sub_tasks"]),
     JList(<< >>), JList(<<JStr(<<"a">>)>>), JList(<<JStr(Chars["title"])>>),
     JList(<<JInt(5), JStr(Chars["sub_tasks"])>>)}
    \cup {ObjectOf(t, p, s) : t \in TitleValues, p \in PriorityValues, s \in SubTasksValues}

Outcomes ==
    {[kind |-> "not_configured"], [kind |-> "api_error"], [kind |-> "not_json"]}
    \cup {[kind |-> "json", json |-> v] : v \in JsonValues}

GeminiParse == \E outcome \in Outcomes : ParseTaskInput(outcome)

GeminiBreakdown == \E outcome \in Outcomes : BreakdownTask(outcome)

NextGemini == GeminiParse \/ GeminiBreakdown

SpecGemini == Init /\ [][NextGemini]_vars

\* C10: for every outcome of the external call, parse_task_input and
\* breakdown_task return a normalized result or absent and raise nothing.
C10_AdapterNeverRaises ==
    call.op \in {"parse_task_input", "breakdown_task"} => ~ret.raised

\* the entries of sub_tasks that are not blank, each trimmed of its surrounding
\* whitespace and then cut to 255 characters
RECURSIVE trimmed_sub_tasks(_)
trimmed_sub_tasks(sub_tasks) ==
    IF sub_tasks = << >> THEN << >>
    ELSE LET task == Head(sub_tasks)
             rest == trimmed_sub_tasks(Tail(sub_tasks))
         IN IF truthy(task) /\ strip(str(task)) # << >>
            THEN <<slice_to(strip(str(task)), TEXT_LIMIT)>> \o rest
            ELSE rest

\* C11: the sequence breakdown_task returns holds, in the original order,
\* exactly the non-blank entries of sub_tasks, each trimmed of surrounding
\* whitespace and truncated to 255 characters, and no returned entry is empty
\* or blank.
C11_ReturnsTrimmedEntries ==
    (call.op = "breakdown_task" /\ ~ret.raised /\ ret.value # None) =>
        LET sub_tasks == call_gemini(call.args.outcome).value["sub_tasks"].value
            returned == ret.value[1]
        IN /\ returned = trimmed_sub_tasks(sub_tasks)
           /\ \A i \in 1..Len(returned) : strip(returned[i]) # << >>

\* the response is a JSON object that has no key title
omits_title(result) == result.type # "dict" \/ "title" \notin DOMAIN result.value

\* C12: parse_task_input returns absent when the response omits title;
\* otherwise it returns a draft whose title is the response's title cut to 255
\* characters and whose priority is the response's priority when that is one
\* of low, medium, high, urgent and medium in every other case.
C12_DraftTitleAndPriority ==
    call.op = "parse_task_input" =>
        LET result == call_gemini(call.args.outcome)
        IN /\ ~ret.raised
           /\ IF omits_title(result)
              THEN ret.value = None
              ELSE LET d == result.value
                   IN /\ ret.value # None
                      /\ ret.value[1].title = slice_to(str(d["title"]), TEXT_LIMIT)
                      /\ ret.value[1].priority \in VALID_PRIORITIES
                      /\ ret.value[1].priority =
                            IF /\ "priority" \in DOMAIN d
                               /\ \E p \in VALID_PRIORITIES : is_text(d["priority"], Chars[p])
                            THEN CHOOSE p \in VALID_PRIORITIES : is_text(d["priority"], Chars[p])
                            ELSE "medium"

----------------------------------------------------------------------------
(* The store in a single session whose callers pass as parent_task_id only  *)
(* the task_id of a task that is stored at the moment of the call.          *)

\* nothing, or the id of a stored task
StoredParents == {None} \cup {Some(i) : i \in DOMAIN tasks}

IntegrityCreate ==
    \E parent \in StoredParents :
        CreateTask("t", None, "todo", "medium", None, parent, now, now)

IntegrityUpdate ==
    \E task_id \in Ids, parent \in StoredParents, clear_parent \in BOOLEAN :
        UpdateTask(task_id, None, None, None, None, None, parent, FALSE, clear_parent, now)

IntegrityDelete == \E task_id \in Ids : DeleteTask(task_id)

NextIntegrity == IntegrityCreate \/ IntegrityUpdate \/ IntegrityDelete

SpecIntegrity == Init /\ [][NextIntegrity]_vars

\* C17: when a parent_task_id is only ever set to the task_id of a task stored
\* at that moment, every stored task's non-absent parent_task_id refers to a
\* task that is still stored, after any sequence of create_task, update_task
\* and delete_task calls.
C17_ParentsAreStored ==
    \A i \in DOMAIN tasks :
        tasks[i].parent_task_id # None => tasks[i].parent_task_id[1] \in DOMAIN tasks

\* delete_task has just removed task 1, while a stored task still has another
\* stored task as its parent
C17_Witness ==
    /\ call.op = "delete_task"
    /\ ret = TRUE
    /\ call.task_id = 1
    /\ \E c \in DOMAIN tasks : tasks[c].parent_task_id # None /\ tasks[c].parent_task_id[1] # c

----------------------------------------------------------------------------
(* The task list of app.py: the list queries of database.py and the         *)
(* hierarchy that render_task_hierarchy builds from the list it is given.   *)
(* A list is a sequence of rows; what is rendered is the sequence of the    *)
(* task_ids in the order render_task is entered.                            *)

\* number of tasks created in a run of the task list
MaxTreeTasks == 2

\* the rows ids of db, ordered by created_at descending; rows of the same
\* created_at come in the engine's order, here the latest id first
RECURSIVE created_at_desc(_, _)
created_at_desc(db, ids) ==
    IF ids = {} THEN << >>
    ELSE LET first == CHOOSE i \in ids :
                         \A j \in ids :
                            \/ db[j].created_at < db[i].created_at
                            \/ db[j].created_at = db[i].created_at /\ j <= i
         IN <<db[first]>> \o created_at_desc(db, ids \ {first})

get_all_tasks(db) == created_at_desc(db, DOMAIN db)

get_tasks_by_status(db, status) ==
    created_at_desc(db, {i \in DOMAIN db : db[i].status = status})

\* the keys of the dict tasks_by_id
tasks_by_id(all_tasks) == {all_tasks[k].task_id : k \in 1..Len(all_tasks)}

\* mutation: no task is entered under its parent
children_map_Empty(all_tasks) == [p \in {} |-> << >>]

\* children_map: for every parent_task_id that occurs, the tasks that have it
children_map(all_tasks) ==
    LET parents == {all_tasks[k].parent_task_id[1] :
                       k \in {k \in 1..Len(all_tasks) : all_tasks[k].parent_task_id # None}}
    IN [p \in parents |->
           LET is_child(t) == t.parent_task_id = Some(p)
           IN SelectSeq(all_tasks, is_child)]

\* mutation: only the tasks without a parent_task_id are roots
root_tasks_Parentless(all_tasks) ==
    LET is_root(t) == t.parent_task_id = None
    IN SelectSeq(all_tasks, is_root)

root_tasks(all_tasks) ==
    LET is_root(t) ==
            \/ t.parent_task_id = None
            \/ t.parent_task_id[1] \notin tasks_by_id(all_tasks)
    IN SelectSeq(all_tasks, is_root)

\* what stands in the rendering where the interpreter gave up the recursion
RecursionError == -1

\* render_task and the loop over a list of tasks; a recursion deeper than the
\* list is long is on a cycle and ends in Python's RecursionError
RECURSIVE render_task(_, _, _), render_each(_, _, _)
render_task(task, all_tasks, indent_level) ==
    IF indent_level > Len(all_tasks) THEN <<RecursionError>>
    ELSE LET children == IF task.task_id \in DOMAIN children_map(all_tasks)
                         THEN children_map(all_tasks)[task.task_id]
                         ELSE << >>
         IN <<task.task_id>> \o render_each(children, all_tasks, indent_level + 1)

render_each(list, all_tasks, indent_level) ==
    IF list = << >> THEN << >>
    ELSE render_task(Head(list), all_tasks, indent_level)
            \o render_each(Tail(list), all_tasks, indent_level)

\* the task_ids of a list of rows
ids_of(list) == [k \in 1..Len(list) |-> list[k].task_id]

render_task_hierarchy(all_tasks) ==
    LET rendered == render_each(root_tasks(all_tasks), all_tasks, 0)
    IN [root_tasks |-> ids_of(root_tasks(all_tasks)),
        children_map |-> [p \in DOMAIN children_map(all_tasks) |->
                             ids_of(children_map(all_tasks)[p])],
        rendered |-> IF \E k \in 1..Len(rendered) : rendered[k] = RecursionError
                     THEN Raise("RecursionError")
                     ELSE Return(rendered)]

\* render_task_list from line 173 on, filter_status being the status the
\* selectbox maps to (None for All)
RenderTaskList(filter_status) ==
    /\ call' = [op |-> "render_task_list", task_id |-> 0,
                args |-> [filter_status |-> filter_status]]
    /\ LET all_tasks == IF filter_status # None
                        THEN get_tasks_by_status(tasks, filter_status[1])
                        ELSE get_all_tasks(tasks)
       IN ret' = render_task_hierarchy(all_tasks)
    /\ UNCHANGED <<tasks, issued, now>>
    /\ UNCHANGED front

TreeCreate ==
    /\ issued < MaxTreeTasks
    /\ \E status \in {"todo", "done"}, parent \in ParentInputs :
          CreateTask("t", None, status, "medium", None, parent, now, now)

TreeUpdate ==
    \E task_id \in Ids, parent \in ParentInputs, clear_parent \in BOOLEAN :
        UpdateTask(task_id, None, None, None, None, None, parent, FALSE, clear_parent, now)

TreeDelete == \E task_id \in Ids : DeleteTask(task_id)

TreeRender ==
    \E filter_status \in {None, Some("todo"), Some("done")} : RenderTaskList(filter_status)

NextTree == TreeCreate \/ TreeUpdate \/ TreeDelete \/ TreeRender

SpecTree == Init /\ [][NextTree]_vars

\* the stored tasks the list of the last render_task_list call holds
Listed ==
    IF call.args.filter_status = None THEN DOMAIN tasks
    ELSE {i \in DOMAIN tasks : tasks[i].status = call.args.filter_status[1]}

\* how often x occurs in the sequence s
Occurrences(s, x) == Cardinality({k \in 1..Len(s) : s[k] = x})

\* C14: over the given task list, the roots are exactly the tasks whose
\* parent_task_id is absent or whose parent is not in the list, and a task
\* whose parent is in the list is listed as a child of exactly that parent.
C14_RootsAndChildren ==
    call.op = "render_task_list" =>
        /\ \A i \in Listed :
              Occurrences(ret.root_tasks, i) =
                 IF \/ tasks[i].parent_task_id = None
                    \/ tasks[i].parent_task_id[1] \notin Listed
                 THEN 1 ELSE 0
        /\ \A k \in 1..Len(ret.root_tasks) : ret.root_tasks[k] \in Listed
        /\ \A i \in Listed :
              (tasks[i].parent_task_id # None /\ tasks[i].parent_task_id[1] \in Listed) =>
                 /\ tasks[i].parent_task_id[1] \in DOMAIN ret.children_map
                 /\ \A p \in DOMAIN ret.children_map :
                       Occurrences(ret.children_map[p], i) =
                          IF p = tasks[i].parent_task_id[1] THEN 1 ELSE 0

\* the full list has just been rendered with task 1 under a dangling parent,
\* so a root, and task 2 listed as the child of task 1
C14_Witness ==
    /\ call.op = "render_task_list"
    /\ call.args.filter_status = None
    /\ DOMAIN tasks = {1, 2}
    /\ tasks[1].parent_task_id = Some(0)
    /\ tasks[2].parent_task_id = Some(1)
    /\ ret.root_tasks = <<1>>
    /\ ret.children_map[1] = <<2>>

\* following the parents of task i for at most n steps ends at a task that is
\* a root of the full list
RECURSIVE ends_at_root(_, _)
ends_at_root(i, n) ==
    \/ tasks[i].parent_task_id = None
    \/ tasks[i].parent_task_id[1] \notin DOMAIN tasks
    \/ n > 0 /\ ends_at_root(tasks[i].parent_task_id[1], n - 1)

\* C18 as claimed: rendering the full task list terminates and renders every
\* task of the list exactly once, whatever its parent_task_id is (its own id
\* and parent cycles included).
C18_EveryTaskRenderedOnce ==
    (call.op = "render_task_list" /\ call.args.filter_status = None) =>
        /\ ~ret.rendered.raised
        /\ \A i \in DOMAIN tasks : Occurrences(ret.rendered.value, i) = 1

\* C18: rendering the full task list terminates and renders no task twice;
\* it renders exactly the tasks whose chain of parents ends at a root, and
\* omits a task that is its own parent or is on or below a parent cycle.
C18_RootedTasksRenderedOnce ==
    (call.op = "render_task_list" /\ call.args.filter_status = None) =>
        /\ ~ret.rendered.raised
        /\ \A k \in 1..Len(ret.rendered.value) : ret.rendered.value[k] \in DOMAIN tasks
        /\ \A i \in DOMAIN tasks :
              Occurrences(ret.rendered.value, i) =
                 IF ends_at_root(i, Cardinality(DOMAIN tasks)) THEN 1 ELSE 0

\* the full list has just been rendered with task 1 being its own parent and
\* task 2 a root: task 2 is rendered and task 1 is not
C18_Witness ==
    /\ call.op = "render_task_list"
    /\ call.args.filter_status = None
    /\ DOMAIN tasks = {1, 2}
    /\ tasks[1].parent_task_id = Some(1)
    /\ tasks[2].parent_task_id = None
    /\ ret.rendered = Return(<<2>>)

----------------------------------------------------------------------------
(* The task list page of app.py in one browser session: the buttons and    *)
(* form submissions of render_task_list, render_add_task_form,             *)
(* render_ai_input_form, render_task_hierarchy, render_edit_task_form and  *)
(* render_breakdown_form.  One action is one script run: what the handler  *)
(* of the pressed button does to st.session_state and to the table.  The   *)
(* status filter stands at All, so every stored task is rendered with its  *)
(* Edit button.  Texts are sequences of characters.  ret is what the run   *)
(* ends with: Return(message) or the exception raised.                     *)

\* len(v) for a v that is None or a list
len(v) == IF v = None THEN Raise("TypeError") ELSE Return(Len(v[1]))

\* the "+ Add Task" button
ClickAddTask ==
    /\ call' = [op |-> "click_add_task", task_id |-> 0]
    /\ session_state' = [session_state EXCEPT !.show_add_form = ~session_state.show_add_form,
                                              !.show_ai_input = FALSE,
                                              !.ai_parsed_task = None]
    /\ ret' = Return("rerun")
    /\ UNCHANGED <<tasks, issued, now, generated_for, running>>

\* the "+ AI Add" button
ClickAiAdd ==
    /\ call' = [op |-> "click_ai_add", task_id |-> 0]
    /\ session_state' = [session_state EXCEPT !.show_ai_input = ~session_state.show_ai_input,
                                              !.show_add_form = FALSE]
    /\ ret' = Return("rerun")
    /\ UNCHANGED <<tasks, issued, now, generated_for, running>>

\* "Create Task" of the manual add form with the text title typed in
SubmitAddTask(title, priority, parent_id) ==
    /\ session_state.show_add_form
    /\ call' = [op |-> "submit_add_task", task_id |-> 0]
    /\ IF strip(title) = << >>
       THEN /\ ret' = Return("Title is required")
            /\ UNCHANGED <<tasks, issued, session_state>>
       ELSE /\ issued < MaxIds
            /\ tasks' = db_add(tasks, create_task(issued + 1, strip(title), None, "todo",
                                                  priority, None, parent_id, now, now))
            /\ issued' = issued + 1
            /\ session_state' = [session_state EXCEPT !.show_add_form = FALSE]
            /\ ret' = Return("rerun")
    /\ UNCHANGED <<now, generated_for, running>>

\* "Parse with AI" on a description that is not blank
ClickParse(outcome) ==
    /\ session_state.show_ai_input
    /\ call' = [op |-> "click_parse", task_id |-> 0]
    /\ LET result == parse_task_input(call_gemini(outcome))
       IN IF result.raised
          THEN ret' = result /\ UNCHANGED session_state
          ELSE IF result.value # None
          THEN /\ session_state' = [session_state EXCEPT !.ai_parsed_task = result.value]
               /\ ret' = Return("rerun")
          ELSE /\ ret' = Return("Failed to parse input")
               /\ UNCHANGED session_state
    /\ UNCHANGED <<tasks, issued, now, generated_for, running>>

\* "Create Task" of the confirm form with the text title in the Title field
SubmitConfirmAiTask(title) ==
    /\ session_state.show_ai_input
    /\ session_state.ai_parsed_task # None
    /\ call' = [op |-> "submit_confirm_ai_task", task_id |-> 0]
    /\ IF strip(title) # << >>
       THEN /\ issued < MaxIds
            /\ tasks' = db_add(tasks, create_task(issued + 1, strip(title), None, "todo",
                                                  session_state.ai_parsed_task[1].priority,
                                                  None, None, now, now))
            /\ issued' = issued + 1
            /\ session_state' = [session_state EXCEPT !.ai_parsed_task = None,
                                                      !.show_ai_input = FALSE]
            /\ ret' = Return("rerun")
       ELSE /\ ret' = Return("Title is required")
            /\ UNCHANGED <<tasks, issued, session_state>>
    /\ UNCHANGED <<now, generated_for, running>>

\* the Edit button of a rendered task
ClickEdit(task_id) ==
    /\ task_id \in DOMAIN tasks
    /\ call' = [op |-> "click_edit", task_id |-> task_id]
    /\ LET is_editing == session_state.editing_task_id = Some(task_id)
       IN session_state' = [session_state EXCEPT
                               !.editing_task_id = IF ~is_editing THEN Some(task_id) ELSE None,
                               !.breakdown_task_id = None]
    /\ ret' = Return("rerun")
    /\ UNCHANGED <<tasks, issued, now, generated_for, running>>

\* the edit form is rendered: is_editing holds for a rendered task
EditFormShown ==
    /\ session_state.editing_task_id # None
    /\ session_state.editing_task_id[1] \in DOMAIN tasks

\* Save of the edit form with the text title in the Title field and the other
\* fields as the form shows them
SubmitSave(title) ==
    /\ EditFormShown
    /\ LET task == tasks[session_state.editing_task_id[1]]
       IN /\ call' = [op |-> "submit_save", task_id |-> task.task_id]
          /\ IF strip(title) # << >>
             THEN /\ tasks' = [tasks EXCEPT ![task.task_id] =
                                  Updated(task, Some(strip(title)), None, Some(task.status),
                                          Some(task.priority), None, None, FALSE, FALSE, now)]
                  /\ session_state' = [session_state EXCEPT !.editing_task_id = None]
                  /\ ret' = Return("rerun")
             ELSE /\ ret' = Return("Title is required")
                  /\ UNCHANGED <<tasks, session_state>>
    /\ UNCHANGED <<issued, now, generated_for, running>>

\* Cancel of the edit form
SubmitCancelEdit ==
    /\ EditFormShown
    /\ call' = [op |-> "submit_cancel_edit", task_id |-> session_state.editing_task_id[1]]
    /\ session_state' = [session_state EXCEPT !.editing_task_id = None]
    /\ ret' = Return("rerun")
    /\ UNCHANGED <<tasks, issued, now, generated_for, running>>

\* Breakdown of the edit form
SubmitBreakdown ==
    /\ EditFormShown
    /\ call' = [op |-> "submit_breakdown", task_id |-> session_state.editing_task_id[1]]
    /\ session_state' = [session_state EXCEPT
                            !.breakdown_task_id = session_state.editing_task_id,
                            !.editing_task_id = None]
    /\ ret' = Return("rerun")
    /\ UNCHANGED <<tasks, issued, now, generated_for, running>>

\* Delete of the edit form
SubmitDelete ==
    /\ EditFormShown
    /\ LET task == tasks[session_state.editing_task_id[1]]
       IN /\ call' = [op |-> "submit_delete", task_id |-> task.task_id]
          /\ IF has_subtasks(tasks, task.task_id)
             THEN /\ ret' = Return("Cannot delete: task has subtasks")
                  /\ UNCHANGED <<tasks, session_state>>
             ELSE /\ tasks' = db_delete(tasks, task)
                  /\ session_state' = [session_state EXCEPT !.editing_task_id = None]
                  /\ ret' = Return("rerun")
    /\ UNCHANGED <<issued, now, generated_for, running>>

\* the breakdown form is rendered: is_breaking_down holds for a rendered task
BreakdownFormShown ==
    /\ session_state.breakdown_task_id # None
    /\ session_state.breakdown_task_id[1] \in DOMAIN tasks

\* "Generate Sub-tasks with AI"
ClickGenerate(outcome) ==
    /\ BreakdownFormShown
    /\ session_state.breakdown_subtasks = None
    /\ call' = [op |-> "click_generate", task_id |-> session_state.breakdown_task_id[1]]
    /\ LET subtasks == breakdown_task(call_gemini(outcome))
       IN IF subtasks.raised
          THEN ret' = subtasks /\ UNCHANGED <<session_state, generated_for>>
          ELSE IF subtasks.value # None /\ subtasks.value[1] # << >>
          THEN /\ session_state' = [session_state EXCEPT !.breakdown_subtasks = subtasks.value]
               /\ generated_for' = session_state.breakdown_task_id
               /\ ret' = Return("rerun")
          ELSE /\ ret' = Return("Failed to generate sub-tasks")
               /\ UNCHANGED <<session_state, generated_for>>
    /\ UNCHANGED <<tasks, issued, now, running>>

\* Cancel of the breakdown form, before and after sub-tasks are shown
ClickCancelBreakdown ==
    /\ BreakdownFormShown
    /\ call' = [op |-> "click_cancel_breakdown", task_id |-> session_state.breakdown_task_id[1]]
    /\ IF session_state.breakdown_subtasks = None
       THEN /\ session_state' = [session_state EXCEPT !.breakdown_task_id = None]
            /\ UNCHANGED generated_for
       ELSE /\ session_state' = [session_state EXCEPT !.breakdown_task_id = None,
                                                      !.breakdown_subtasks = None]
            /\ generated_for' = None
    /\ ret' = Return("rerun")
    /\ UNCHANGED <<tasks, issued, now, running>>

\* Regenerate
ClickRegenerate ==
    /\ BreakdownFormShown
    /\ session_state.breakdown_subtasks # None
    /\ call' = [op |-> "click_regenerate", task_id |-> session_state.breakdown_task_id[1]]
    /\ session_state' = [session_state EXCEPT !.breakdown_subtasks = None]
    /\ generated_for' = None
    /\ ret' = Return("rerun")
    /\ UNCHANGED <<tasks, issued, now, running>>

\* the table after the loop of Create All over the sub-task titles, n ids
\* having been handed out before
RECURSIVE create_all(_, _, _, _, _)
create_all(db, n, titles, task, t) ==
    IF titles = << >> THEN db
    ELSE create_all(db_add(db, create_task(n + 1, Head(titles), None, "todo", task.priority,
                                           None, Some(task.task_id), t, t)),
                    n + 1, Tail(titles), task, t)

\* Create All: the loop, the two assignments and the st.success line
ClickCreateAll ==
    /\ BreakdownFormShown
    /\ session_state.breakdown_subtasks # None
    /\ LET task == tasks[session_state.breakdown_task_id[1]]
           titles == session_state.breakdown_subtasks[1]
       IN /\ issued + Len(titles) <= MaxIds
          /\ call' = [op |-> "click_create_all", task_id |-> task.task_id]
          /\ tasks' = create_all(tasks, issued, titles, task, now)
          /\ issued' = issued + Len(titles)
    /\ session_state' = [session_state EXCEPT !.breakdown_task_id = None,
                                              !.breakdown_subtasks = None]
    /\ generated_for' = None
    /\ ret' = len(session_state'.breakdown_subtasks)
    /\ UNCHANGED <<now, running>>

\* what the user types into a Title field (max_chars = 255)
AppTitles == {<<" ">>, <<" ", "a", " ">>}

\* outcomes of the external call during a session
AppOutcomes ==
    {[kind |-> "api_error"]}
    \cup {[kind |-> "json", json |-> v] :
            v \in {ObjectOf(JStr(<<" ", "a", " ">>), JStr(Chars["urgent"]), Absent),
                   ObjectOf(Absent, Absent, JList(<<JStr(<<" ", "a", " ">>), JStr(<<"b">>)>>)),
                   ObjectOf(Absent, Absent, JList(<<JStr(Blanks(TEXT_LIMIT) \o <<"a">>)>>)),
                   ObjectOf(Absent, Absent, JList(<<JStr(<<" ">>)>>))}}

AppAddTask ==
    \E title \in AppTitles, parent_id \in StoredParents :
        SubmitAddTask(title, "medium", parent_id)

AppParse == \E outcome \in AppOutcomes : ClickParse(outcome)

AppConfirmAiTask ==
    \E title \in AppTitles \cup {session_state.ai_parsed_task[i].title :
                                    i \in DOMAIN session_state.ai_parsed_task} :
        SubmitConfirmAiTask(title)

AppEdit == \E task_id \in Ids : ClickEdit(task_id)

AppSave == \E title \in AppTitles : SubmitSave(title)

AppGenerate == \E outcome \in AppOutcomes : ClickGenerate(outcome)

NextApp ==
    \/ ClickAddTask \/ ClickAiAdd \/ AppAddTask \/ AppParse \/ AppConfirmAiTask
    \/ AppEdit \/ AppSave \/ SubmitCancelEdit \/ SubmitBreakdown \/ SubmitDelete
    \/ AppGenerate \/ ClickCancelBreakdown \/ ClickRegenerate \/ ClickCreateAll

SpecApp == Init /\ [][NextApp]_vars

\* C13: every task stored through the manual add form, the AI-draft confirm
\* form, Save of the edit form and Create All of the breakdown form has a
\* title that is non-empty after trimming and at most 255 characters long.
C13_StoredTitlesNotBlank ==
    \A i \in DOMAIN tasks :
        strip(tasks[i].title) # << >> /\ Len(tasks[i].title) <= TEXT_LIMIT

\* C15: Create All in the breakdown form of task T with k >= 1 suggested
\* sub-tasks completes without raising an error, having created exactly k new
\* tasks whose parent_task_id is T's task_id and whose priority is T's
\* priority, with breakdown_task_id and breakdown_subtasks cleared and the
\* number k reported as created.
C15_CreateAllCompletes ==
    [][call'.op = "click_create_all" =>
          LET T == session_state.breakdown_task_id[1]
              k == Len(session_state.breakdown_subtasks[1])
              created == DOMAIN tasks' \ DOMAIN tasks
          IN /\ Cardinality(created) = k
             /\ \A i \in created : /\ tasks'[i].parent_task_id = Some(T)
                                   /\ tasks'[i].priority = tasks[T].priority
             /\ \A i \in DOMAIN tasks : tasks'[i] = tasks[i]
             /\ session_state'.breakdown_task_id = None
             /\ session_state'.breakdown_subtasks = None
             /\ ~ret'.raised
             /\ ret'.value = k]_vars

\* C16: whenever the breakdown form of a task T shows suggested sub-tasks
\* (breakdown_task_id = T and breakdown_subtasks is not None), those sub-tasks
\* were generated from T.
C16_SubtasksShownForTheirTask ==
    (BreakdownFormShown /\ session_state.breakdown_subtasks # None) =>
        generated_for = session_state.breakdown_task_id

----------------------------------------------------------------------------
(* Two database sessions on the same table.  SessionLocal hands every       *)
(* script run a session of its own; the sqlite3 driver opens a transaction  *)
(* only before a writing statement, so the two SELECTs of delete_task hold  *)
(* no lock and each statement of a session sees what the other session has *)
(* committed.  delete_task is three steps: get_task_by_id (line 180),       *)
(* has_subtasks (line 184), and db.delete with db.commit (lines 187-188).   *)
(* create_task writes and commits in one step.                              *)

\* line 180 of delete_task in session s
DeleteTaskGet(s, task_id) ==
    /\ running[s] = None
    /\ call' = [op |-> "delete_task.get_task_by_id", task_id |-> task_id, session |-> s]
    /\ IF get_task_by_id(tasks, task_id) = None
       THEN ret' = Some(FALSE) /\ UNCHANGED running
       ELSE /\ ret' = None
            /\ running' = [running EXCEPT ![s] = Some([pc |-> "has_subtasks",
                                                        task |-> tasks[task_id]])]
    /\ UNCHANGED <<tasks, issued, now, session_state, generated_for>>

\* line 184 of delete_task in session s
DeleteTaskHasSubtasks(s) ==
    /\ running[s] # None
    /\ running[s][1].pc = "has_subtasks"
    /\ call' = [op |-> "delete_task.has_subtasks", task_id |-> running[s][1].task.task_id,
                session |-> s]
    /\ IF has_subtasks(tasks, running[s][1].task.task_id)
       THEN ret' = Some(FALSE) /\ running' = [running EXCEPT ![s] = None]
       ELSE ret' = None /\ running' = [running EXCEPT ![s] = Some([@[1] EXCEPT !.pc = "delete"])]
    /\ UNCHANGED <<tasks, issued, now, session_state, generated_for>>

\* lines 187 to 189 of delete_task in session s
DeleteTaskCommit(s) ==
    /\ running[s] # None
    /\ running[s][1].pc = "delete"
    /\ call' = [op |-> "delete_task.commit", task_id |-> running[s][1].task.task_id,
                session |-> s]
    /\ tasks' = db_delete(tasks, running[s][1].task)
    /\ ret' = Some(TRUE)
    /\ running' = [running EXCEPT ![s] = None]
    /\ UNCHANGED <<issued, now, session_state, generated_for>>

\* create_task in a session that is not inside a delete_task call, with the
\* id of a task stored at that moment as parent_task_id
SessionsCreate ==
    /\ \E s \in Sessions : running[s] = None
    /\ \E parent \in StoredParents :
          CreateTask("t", None, "todo", "medium", None, parent, now, now)

SessionsDeleteGet == \E s \in Sessions, task_id \in Ids : DeleteTaskGet(s, task_id)

SessionsDeleteHasSubtasks == \E s \in Sessions : DeleteTaskHasSubtasks(s)

SessionsDeleteCommit == \E s \in Sessions : DeleteTaskCommit(s)

NextSessions ==
    SessionsCreate \/ SessionsDeleteGet \/ SessionsDeleteHasSubtasks \/ SessionsDeleteCommit

SpecSessions == Init /\ [][NextSessions]_vars

\* C19: when delete_task(P) of one session interleaves with create_task with
\* parent_task_id = P of another session, no step removes P while a stored
\* task has parent_task_id = P.
C19_NoRemovalWhileChildren ==
    [][\A P \in DOMAIN tasks \ DOMAIN tasks' :
          \A c \in DOMAIN tasks' : tasks'[c].parent_task_id # Some(P)]_vars

====
